---- MODULE Spec2Model ----
(***************************************************************************)
(* Model of the NOBIL EV charging pipeline:                                *)
(*   data_prep.py               raw Avro events -> hourly count tables     *)
(*   compute_metrics.py         analytics functions over the tables        *)
(*   compute_metrics_refined.py the capacity-aware variant                 *)
(* Timestamps and hours are minutes since the epoch (UTC).  A ratio a/b is  *)
(* the pair <<a, b>>; ratios are compared by cross-multiplication.         *)
(***************************************************************************)
EXTENDS Integers, Sequences, FiniteSets, TLC

(***************************************************************************)
(* Bounds of the explored inputs.                                          *)
(***************************************************************************)
MaxFiles == 2
MaxRecs == 2
MaxEvseRows == 4
MaxGap == 2
MaxStationRows == 4
MaxTopN == 2
MaxCleanRecs == 3
MaxPermRows == 3

(***************************************************************************)
(* Program constants.                                                      *)
(***************************************************************************)
SampleSizeDefault == 500
MinutesPerHour == 60
MinutesPerDay == 1440
GapHoursDefault == 24
TopNDefault == 5
ThresholdDefault == <<9, 10>>

None == "None"

VARIABLES
  prog,           \* which script this run executes
  pc,             \* position inside its main()
  avro_files,     \* data_prep: the Avro files under input_dir, in path order
  sample_files,   \* data_prep: avro_files[:sample_size] still to parse
  all_recs,       \* data_prep: records collected by parse_avro_file
  df,             \* data_prep: canonical records (after dropna / to_datetime)
  total,          \* data_prep: len(df)
  unknown_count,  \* data_prep: status_counts.get('UNKNOWN', 0)
  df_clean,       \* data_prep: df without UNKNOWN, with the hour column
  agg,            \* data_prep: station-hourly table
  agg_evse,       \* data_prep: connector-hourly table
  written,        \* names of the artifacts written so far
  stdout,         \* messages printed so far
  exit,           \* "running", "ok", "exit1", or the unhandled exception
  df_evse,        \* compute_reliability_downtime: its table argument
  gap_hours,      \* compute_reliability_downtime: its gap_hours argument
  todo,           \* compute_reliability_downtime: groups still to visit
  grp,            \* compute_reliability_downtime: sorted group with is_zero, run
  runs,           \* compute_reliability_downtime: run table of the group
  results,        \* compute_reliability_downtime: result tuples so far
  df_station,     \* compute_peak_periods / capacity pressure: table argument
  top_n,          \* compute_peak_periods: its top_n argument
  threshold,      \* compute_capacity_pressure: its threshold argument
  ret,            \* the frame the function returned
  parquet,        \* refined main: the hourly tables data_prep left on disk
  station_df,     \* refined main: the station table as loaded
  station_ref,    \* refined main: the rows with a refined occupancy_rate
  evse_df,        \* refined main: the connector table as loaded
  views           \* refined main: the five derived frames

prepVars == <<avro_files, sample_files, all_recs, df, total, unknown_count,
              df_clean, agg, agg_evse>>
downtimeVars == <<df_evse, gap_hours, todo, grp, runs, results>>
stationVars == <<df_station, top_n, threshold>>
refinedVars == <<parquet, station_df, station_ref, evse_df, views>>
vars == <<prog, pc, prepVars, written, stdout, exit, downtimeVars,
          stationVars, ret, refinedVars>>

(***************************************************************************)
(* Generic helpers.                                                        *)
(***************************************************************************)
RECURSIVE SumSeq(_)
SumSeq(s) == IF s = <<>> THEN 0 ELSE Head(s) + SumSeq(Tail(s))

RECURSIVE SumOver(_, _)
SumOver(f, S) ==
  IF S = {} THEN 0
  ELSE LET x == CHOOSE y \in S : TRUE IN f[x] + SumOver(f, S \ {x})

RECURSIVE Concat(_)
Concat(ss) == IF ss = <<>> THEN <<>> ELSE Head(ss) \o Concat(Tail(ss))

Range(s) == { s[i] : i \in 1..Len(s) }

Take(s, n) == SubSeq(s, 1, IF n < Len(s) THEN n ELSE Len(s))

(***************************************************************************)
(* Python's string order on the identifiers used here.                     *)
(***************************************************************************)
IdOrder == <<"E1", "E2", "E3", "S1", "S2">>
Rank(id) == CHOOSE i \in 1..Len(IdOrder) : IdOrder[i] = id

KeyLess(a, b) ==
  \/ Rank(a[1]) < Rank(b[1])
  \/ a[1] = b[1] /\ a[2] < b[2]

RECURSIVE SortedKeys(_)
SortedKeys(S) ==
  IF S = {} THEN <<>>
  ELSE LET m == CHOOSE x \in S : \A y \in S \ {x} : KeyLess(x, y)
       IN <<m>> \o SortedKeys(S \ {m})

(***************************************************************************)
(* Raw input: an Avro record has a Body that is absent, undecodable, or a   *)
(* JSON object with the four fields (each possibly missing).  A timestamp   *)
(* string is missing, unparseable, or a local wall-clock minute with a UTC  *)
(* offset.                                                                 *)
(***************************************************************************)
Iso(local, off) == [kind |-> "iso", local |-> local, off |-> off]
NoTs == [kind |-> "none", local |-> 0, off |-> 0]
BadTs == [kind |-> "bad", local |-> 0, off |-> 0]
GoodTimestamps == { Iso(50, 0), Iso(130, 60) }

Payload(st, ev, s, ts) ==
  [nobilId |-> st, evseUId |-> ev, status |-> s, timestamp |-> ts]
NoPayload == Payload(None, None, None, NoTs)

Connectors == { <<"S1", "E1">>, <<"S1", "E2">>, <<"S2", "E3">> }
Statuses == { "AVAILABLE", "CHARGING", "OUTOFORDER", "UNKNOWN" }

\* connector E1 reports at both instants, the others at the first one
TimestampsOf(c) == IF c[2] = "E1" THEN GoodTimestamps ELSE { Iso(50, 0) }
GoodAvro ==
  UNION { { [Body |-> "json", payload |-> Payload(c[1], c[2], s, ts)] :
              s \in Statuses, ts \in TimestampsOf(c) } : c \in Connectors }
DefectAvro ==
  { [Body |-> "none", payload |-> NoPayload],
    [Body |-> "undecodable", payload |-> NoPayload],
    [Body |-> "json", payload |-> Payload(None, "E1", "CHARGING", Iso(50, 0))],
    [Body |-> "json", payload |-> Payload("S1", None, "CHARGING", Iso(50, 0))],
    [Body |-> "json", payload |-> Payload("S1", "E1", None, Iso(50, 0))],
    [Body |-> "json", payload |-> Payload("S1", "E1", "CHARGING", NoTs)],
    [Body |-> "json", payload |-> Payload("S1", "E1", "CHARGING", BadTs)] }
AvroRecords == GoodAvro \cup DefectAvro

(***************************************************************************)
(* data_prep.py                                                            *)
(***************************************************************************)
\* Variant: the first record without a decodable Body ends the file's loop
parse_avro_file_abort(file) ==
  LET bad == { i \in 1..Len(file) : file[i].Body # "json" }
      stop == IF bad = {} THEN Len(file) + 1
              ELSE CHOOSE i \in bad : \A j \in bad : i <= j
  IN [i \in 1..(stop - 1) |->
        [station_id |-> file[i].payload.nobilId,
         evse_id |-> file[i].payload.evseUId,
         status |-> file[i].payload.status,
         timestamp |-> file[i].payload.timestamp]]

\* parse_avro_file: one record per Avro record with a decodable Body
parse_avro_file(file) ==
  LET decodable(rec) == rec.Body = "json"
      extract(rec) == [station_id |-> rec.payload.nobilId,
                       evse_id |-> rec.payload.evseUId,
                       status |-> rec.payload.status,
                       timestamp |-> rec.payload.timestamp]
      kept == SelectSeq(file, decodable)
  IN [i \in 1..Len(kept) |-> extract(kept[i])]

\* df.dropna(subset=[station_id, evse_id, status, timestamp])
dropna_fields(rows) ==
  LET complete(r) == /\ r.station_id # None /\ r.evse_id # None
                     /\ r.status # None /\ r.timestamp.kind # "none"
  IN SelectSeq(rows, complete)

\* pd.to_datetime(..., utc=True, errors='coerce'): a UTC instant or NaT
NaT == [nat |-> TRUE, min |-> 0]
to_datetime(ts) ==
  IF ts.kind = "iso" THEN [nat |-> FALSE, min |-> ts.local - ts.off] ELSE NaT

parse_timestamps(rows) ==
  [i \in 1..Len(rows) |-> [rows[i] EXCEPT !.timestamp = to_datetime(@)]]

\* df.dropna(subset=['timestamp'])
dropna_timestamp(rows) ==
  LET parsed(r) == ~r.timestamp.nat IN SelectSeq(rows, parsed)

\* status_counts.get('UNKNOWN', 0)
count_unknown(rows) ==
  Cardinality({ i \in 1..Len(rows) : rows[i].status = "UNKNOWN" })

\* Variant: the status filter is left out
exclude_unknown_kept(rows) == rows

\* df[df['status'] != 'UNKNOWN']
exclude_unknown(rows) ==
  LET known(r) == r.status # "UNKNOWN" IN SelectSeq(rows, known)

\* Variant: the hour is rounded to the nearest hour instead of floored
floor_hour_rounded(t) ==
  LET u == t + (MinutesPerHour \div 2) IN u - (u % MinutesPerHour)

\* timestamp.dt.floor('H')
floor_hour(t) == t - (t % MinutesPerHour)

add_hour(rows) ==
  [i \in 1..Len(rows) |->
     [station_id |-> rows[i].station_id, evse_id |-> rows[i].evse_id,
      status |-> rows[i].status, timestamp |-> rows[i].timestamp.min,
      hour |-> floor_hour(rows[i].timestamp.min)]]

\* Variant: the row sum is taken after the charging column was added
row_total_with_charging(counts, cols) ==
  SumOver(counts, cols) + (IF "CHARGING" \in cols THEN counts["CHARGING"] ELSE 0)

\* agg.sum(axis=1) over the status columns
row_total(counts, cols) == SumOver(counts, cols)

\* agg.get('CHARGING', 0)
charging_of(counts, cols) == IF "CHARGING" \in cols THEN counts["CHARGING"] ELSE 0

\* groupby([entity, 'hour', 'status']).size().unstack(fill_value=0), then the
\* total, charging and occupancy_rate columns
hourly_table(rows, entity) ==
  LET cols == { r.status : r \in Range(rows) }
      keys == SortedKeys({ <<r[entity], r.hour>> : r \in Range(rows) })
      size(k, s) ==
        Cardinality({ i \in 1..Len(rows) :
          /\ rows[i][entity] = k[1] /\ rows[i].hour = k[2]
          /\ rows[i].status = s })
      row(k) ==
        LET counts == [s \in cols |-> size(k, s)]
            tot == row_total(counts, cols)
            chg == charging_of(counts, cols)
        IN [entity |-> k[1], hour |-> k[2], counts |-> counts,
            total |-> tot, charging |-> chg, occupancy_rate |-> <<chg, tot>>]
  IN [columns |-> cols, rows |-> [i \in 1..Len(keys) |-> row(keys[i])]]

NoTable == [columns |-> {}, rows |-> <<>>]

\* The ways of laying the record sequence s out over n files
RECURSIVE Splits(_, _)
Splits(s, n) ==
  IF n = 0 THEN IF s = <<>> THEN { <<>> } ELSE {}
  ELSE UNION { { <<SubSeq(s, 1, k)>> \o rest :
                   rest \in Splits(SubSeq(s, k + 1, Len(s)), n - 1) } :
               k \in 0..Len(s) }

PrepIdle ==
  /\ avro_files = <<>> /\ sample_files = <<>> /\ all_recs = <<>>
  /\ df = <<>> /\ total = 0 /\ unknown_count = 0 /\ df_clean = <<>>
  /\ agg = NoTable /\ agg_evse = NoTable
  /\ written = {} /\ stdout = <<>>

DowntimeIdle ==
  /\ df_evse = <<>> /\ gap_hours = GapHoursDefault /\ todo = <<>>
  /\ grp = <<>> /\ runs = <<>> /\ results = <<>>

StationIdle ==
  /\ df_station = <<>> /\ top_n = TopNDefault /\ threshold = ThresholdDefault

NoViews == [name \in {} |-> <<>>]

RefinedIdle ==
  /\ parquet = [station |-> NoTable, evse |-> NoTable]
  /\ station_df = <<>> /\ station_ref = <<>> /\ evse_df = <<>>
  /\ views = NoViews

InitPrep ==
  /\ prog = "data_prep"
  /\ pc = "find_files"
  /\ \E k \in 0..MaxRecs, n \in 0..MaxFiles :
       \E s \in [1..k -> AvroRecords] : avro_files \in Splits(s, n)
  /\ sample_files = <<>>
  /\ all_recs = <<>>
  /\ df = <<>>
  /\ total = 0
  /\ unknown_count = 0
  /\ df_clean = <<>>
  /\ agg = NoTable
  /\ agg_evse = NoTable
  /\ written = {}
  /\ stdout = <<>>
  /\ exit = "running"
  /\ DowntimeIdle /\ StationIdle /\ ret = <<>> /\ RefinedIdle

\* lines 53-60
FindFiles ==
  /\ prog = "data_prep" /\ pc = "find_files"
  /\ IF avro_files = <<>>
     THEN /\ stdout' = stdout \o <<"Found files", "No Avro files found. Exiting.">>
          /\ exit' = "exit1"
          /\ pc' = "halted"
          /\ UNCHANGED sample_files
     ELSE /\ stdout' = stdout \o <<"Found files", "Processing sample">>
          /\ sample_files' = Take(avro_files, SampleSizeDefault)
          /\ pc' = "parse"
          /\ UNCHANGED exit
  /\ UNCHANGED <<prog, avro_files, all_recs, df, total, unknown_count,
                 df_clean, agg, agg_evse, written,
                 downtimeVars, stationVars, ret, refinedVars>>

\* lines 62-64, one iteration
ParseFile ==
  /\ prog = "data_prep" /\ pc = "parse" /\ sample_files # <<>>
  /\ all_recs' = all_recs \o parse_avro_file(Head(sample_files))
  /\ sample_files' = Tail(sample_files)
  /\ UNCHANGED <<prog, pc, avro_files, df, total, unknown_count, df_clean,
                 agg, agg_evse, written, stdout, exit,
                 downtimeVars, stationVars, ret, refinedVars>>

\* lines 65-71: an empty record list gives a frame without columns, and
\* dropna(subset=...) on it raises KeyError
BuildFrame ==
  /\ prog = "data_prep" /\ pc = "parse" /\ sample_files = <<>>
  /\ stdout' = stdout \o <<"Parsed records">>
  /\ IF all_recs = <<>>
     THEN /\ exit' = "KeyError"
          /\ pc' = "halted"
          /\ UNCHANGED df
     ELSE /\ df' = dropna_timestamp(parse_timestamps(dropna_fields(all_recs)))
          /\ pc' = "unknown_analysis"
          /\ UNCHANGED exit
  /\ UNCHANGED <<prog, avro_files, sample_files, all_recs, total,
                 unknown_count, df_clean, agg, agg_evse, written,
                 downtimeVars, stationVars, ret, refinedVars>>

\* lines 74-78: unknown_count / total with total = 0 raises ZeroDivisionError
UnknownAnalysis ==
  /\ prog = "data_prep" /\ pc = "unknown_analysis"
  /\ total' = Len(df)
  /\ unknown_count' = count_unknown(df)
  /\ IF Len(df) = 0
     THEN /\ exit' = "ZeroDivisionError"
          /\ pc' = "halted"
          /\ UNCHANGED stdout
     ELSE /\ stdout' = stdout \o <<"UNKNOWN status">>
          /\ pc' = "exclude_unknown"
          /\ UNCHANGED exit
  /\ UNCHANGED <<prog, avro_files, sample_files, all_recs, df, df_clean,
                 agg, agg_evse, written,
                 downtimeVars, stationVars, ret, refinedVars>>

\* lines 81-84
ExcludeUnknown ==
  /\ prog = "data_prep" /\ pc = "exclude_unknown"
  /\ df_clean' = add_hour(exclude_unknown(df))
  /\ pc' = "agg_station"
  /\ UNCHANGED <<prog, avro_files, sample_files, all_recs, df, total,
                 unknown_count, agg, agg_evse, written, stdout, exit,
                 downtimeVars, stationVars, ret, refinedVars>>

\* lines 85-97
AggStation ==
  /\ prog = "data_prep" /\ pc = "agg_station"
  /\ agg' = hourly_table(df_clean, "station_id")
  /\ written' = written \cup {"status_summary.csv", "occupancy_station_hourly.parquet"}
  /\ pc' = "agg_evse"
  /\ UNCHANGED <<prog, avro_files, sample_files, all_recs, df, total,
                 unknown_count, df_clean, agg_evse, stdout, exit,
                 downtimeVars, stationVars, ret, refinedVars>>

\* lines 100-104
AggEvse ==
  /\ prog = "data_prep" /\ pc = "agg_evse"
  /\ agg_evse' = hourly_table(df_clean, "evse_id")
  /\ written' = written \cup {"occupancy_evse_hourly.parquet"}
  /\ pc' = "save_report"
  /\ UNCHANGED <<prog, avro_files, sample_files, all_recs, df, total,
                 unknown_count, df_clean, agg, stdout, exit,
                 downtimeVars, stationVars, ret, refinedVars>>

\* lines 107-116
SaveReport ==
  /\ prog = "data_prep" /\ pc = "save_report"
  /\ written' = written \cup {"flattened_sample.parquet", "unknown_analysis.txt"}
  /\ stdout' = stdout \o <<"Data preparation complete.">>
  /\ exit' = "ok"
  /\ pc' = "halted"
  /\ UNCHANGED <<prog, avro_files, sample_files, all_recs, df, total,
                 unknown_count, df_clean, agg, agg_evse,
                 downtimeVars, stationVars, ret, refinedVars>>

NextPrep ==
  \/ FindFiles
  \/ ParseFile
  \/ BuildFrame
  \/ UnknownAnalysis
  \/ ExcludeUnknown
  \/ AggStation
  \/ AggEvse
  \/ SaveReport

SpecPrep == InitPrep /\ [][NextPrep]_vars

(***************************************************************************)
(* compute_metrics.py / compute_metrics_refined.py:                        *)
(* compute_reliability_downtime                                            *)
(***************************************************************************)
\* The group keys of df.groupby(column), in sorted order
RECURSIVE SortedIds(_)
SortedIds(S) ==
  IF S = {} THEN <<>>
  ELSE LET m == CHOOSE x \in S : \A y \in S \ {x} : Rank(x) < Rank(y)
       IN <<m>> \o SortedIds(S \ {m})

group_keys(frame, column) == SortedIds({ r[column] : r \in Range(frame) })

\* The rows of one group, in frame order
group_rows(frame, column, id) ==
  LET member(r) == r[column] = id IN SelectSeq(frame, member)

\* Variant: the group is segmented in frame order, without sorting
sort_by_hour_skipped(rows) == rows

\* group.sort_values('hour'); the hours of one connector are distinct
RECURSIVE sort_by_hour(_)
sort_by_hour(rows) ==
  IF rows = <<>> THEN <<>>
  ELSE LET i == CHOOSE j \in 1..Len(rows) :
                  \A k \in 1..Len(rows) : rows[j].hour <= rows[k].hour
           rest == [k \in 1..(Len(rows) - 1) |-> IF k < i THEN rows[k] ELSE rows[k + 1]]
       IN <<rows[i]>> \o sort_by_hour(rest)

\* Variant: a new run also starts where the previous row is not the
\* preceding calendar hour
RECURSIVE run_column_calendar(_)
run_column_calendar(rows) ==
  IF rows = <<>> THEN <<>>
  ELSE LET n == Len(rows)
           init == run_column_calendar(SubSeq(rows, 1, n - 1))
       IN IF n = 1 THEN <<1>>
          ELSE Append(init,
                 init[n - 1] +
                   (IF \/ (rows[n].charging_count = 0) # (rows[n - 1].charging_count = 0)
                       \/ rows[n].hour # rows[n - 1].hour + MinutesPerHour
                    THEN 1 ELSE 0))

\* (is_zero != is_zero.shift(1)).cumsum(): the first row differs from the
\* missing value before it, so the first run is run 1
RECURSIVE run_column(_)
run_column(rows) ==
  IF rows = <<>> THEN <<>>
  ELSE LET n == Len(rows)
           init == run_column(SubSeq(rows, 1, n - 1))
       IN IF n = 1 THEN <<1>>
          ELSE Append(init,
                 init[n - 1] +
                   (IF (rows[n].charging_count = 0) # (rows[n - 1].charging_count = 0)
                    THEN 1 ELSE 0))

\* grp with its is_zero and run columns (lines 94-97)
annotate(group) ==
  LET sorted == sort_by_hour(group)
      run == run_column(sorted)
  IN [i \in 1..Len(sorted) |->
        [evse_id |-> sorted[i].evse_id, hour |-> sorted[i].hour,
         charging_count |-> sorted[i].charging_count,
         is_zero |-> sorted[i].charging_count = 0, run |-> run[i]]]

\* grp.groupby('run').agg(evse_id first, is_zero first, count_hours count)
run_table(g) ==
  LET last == IF g = <<>> THEN 0 ELSE g[Len(g)].run
      first(k) == CHOOSE i \in 1..Len(g) :
                    g[i].run = k /\ \A j \in 1..Len(g) : g[j].run = k => i <= j
  IN [k \in 1..last |->
        [run |-> k, evse_id |-> g[first(k)].evse_id, is_zero |-> g[first(k)].is_zero,
         count_hours |-> Cardinality({ i \in 1..Len(g) : g[i].run = k })]]

\* Variant: a run has to be longer than gap_hours
downtime_runs_strict(rs, gap) ==
  LET long(r) == r.is_zero /\ r.count_hours > gap IN SelectSeq(rs, long)

\* runs[runs['is_zero'] & (runs['count_hours'] >= gap_hours)]
downtime_runs(rs, gap) ==
  LET long(r) == r.is_zero /\ r.count_hours >= gap IN SelectSeq(rs, long)

\* Variant: the hours of every zero run are summed, qualifying or not
total_hours_all_zero(rs, gap) ==
  SumSeq([i \in 1..Len(rs) |-> IF rs[i].is_zero THEN rs[i].count_hours ELSE 0])

\* downtime_runs['count_hours'].sum()
total_hours_of(rs, gap) ==
  LET kept == downtime_runs(rs, gap)
  IN SumSeq([i \in 1..Len(kept) |-> kept[i].count_hours])

\* One iteration of the loop: (evse_id, num_events, total_hours)
downtime_of_group(frame, id, gap) ==
  LET rs == run_table(annotate(group_rows(frame, "evse_id", id)))
  IN [evse_id |-> id,
      num_downtime_events |-> Len(downtime_runs(rs, gap)),
      total_downtime_hours |-> total_hours_of(rs, gap)]

compute_reliability_downtime(frame, gap) ==
  LET ids == group_keys(frame, "evse_id")
  IN [i \in 1..Len(ids) |-> downtime_of_group(frame, ids[i], gap)]

\* Inputs: connector-hourly rows with distinct (evse_id, hour) keys; the
\* hours leave one calendar hour without a row.  The rows come in the order
\* data_prep writes them (by connector, then hour), in the reverse of it, or
\* by hour first.
EvseIds == { "E1", "E2" }
EvseHours == { 0, 60, 120, 240, 300 }
EvseKeys == EvseIds \X EvseHours

HourMajorLess(a, b) ==
  \/ a[2] < b[2]
  \/ a[2] = b[2] /\ Rank(a[1]) < Rank(b[1])

RECURSIVE SortedHourMajor(_)
SortedHourMajor(S) ==
  IF S = {} THEN <<>>
  ELSE LET m == CHOOSE x \in S : \A y \in S \ {x} : HourMajorLess(x, y)
       IN <<m>> \o SortedHourMajor(S \ {m})

Reverse(s) == [i \in 1..Len(s) |-> s[Len(s) + 1 - i]]

RowOrders == { "by_connector", "reversed", "by_hour" }

EvseFrame(keys, count, order) ==
  LET ks == IF order = "by_hour" THEN SortedHourMajor(keys)
            ELSE IF order = "reversed" THEN Reverse(SortedKeys(keys))
            ELSE SortedKeys(keys)
  IN [i \in 1..Len(ks) |->
        [evse_id |-> ks[i][1], hour |-> ks[i][2], charging_count |-> count[ks[i]]]]

\* The scenario of 26 consecutive hours: three idle hours, one busy hour,
\* 21 idle hours, one busy hour
ScenarioEvse ==
  [i \in 1..26 |->
     [evse_id |-> "E1", hour |-> (i - 1) * MinutesPerHour,
      charging_count |-> IF i = 4 THEN 5 ELSE IF i = 26 THEN 3 ELSE 0]]

InitDowntime ==
  /\ prog = "compute_reliability_downtime"
  /\ pc = "called"
  /\ \/ /\ \E keys \in SUBSET EvseKeys :
             /\ Cardinality(keys) <= MaxEvseRows
             /\ \E count \in [keys -> { 0, 5 }], order \in RowOrders :
                  df_evse = EvseFrame(keys, count, order)
        /\ gap_hours \in 1..MaxGap
     \/ /\ df_evse = ScenarioEvse
        /\ gap_hours \in { 20, GapHoursDefault }
  /\ todo = <<>> /\ grp = <<>> /\ runs = <<>> /\ results = <<>>
  /\ PrepIdle /\ exit = "running" /\ StationIdle /\ ret = <<>> /\ RefinedIdle

\* lines 92-93: the groups of df_evse.groupby('evse_id')
DowntimeEnter ==
  /\ prog = "compute_reliability_downtime" /\ pc = "called"
  /\ todo' = group_keys(df_evse, "evse_id")
  /\ results' = <<>>
  /\ pc' = "loop"
  /\ UNCHANGED <<prog, prepVars, written, stdout, exit, df_evse, gap_hours,
                 grp, runs, stationVars, ret, refinedVars>>

\* lines 93-106, one iteration
DowntimeIter ==
  /\ prog = "compute_reliability_downtime" /\ pc = "loop" /\ todo # <<>>
  /\ LET g == annotate(group_rows(df_evse, "evse_id", Head(todo)))
     IN /\ grp' = g
        /\ runs' = run_table(g)
  /\ results' = Append(results, downtime_of_group(df_evse, Head(todo), gap_hours))
  /\ todo' = Tail(todo)
  /\ UNCHANGED <<prog, pc, prepVars, written, stdout, exit, df_evse,
                 gap_hours, stationVars, ret, refinedVars>>

\* lines 107-108
DowntimeReturn ==
  /\ prog = "compute_reliability_downtime" /\ pc = "loop" /\ todo = <<>>
  /\ ret' = results
  /\ pc' = "returned"
  /\ UNCHANGED <<prog, prepVars, written, stdout, exit, downtimeVars,
                 stationVars, refinedVars>>

NextDowntime ==
  \/ DowntimeEnter
  \/ DowntimeIter
  \/ DowntimeReturn

SpecDowntime == InitDowntime /\ [][NextDowntime]_vars

\* The two aggregation programs side by side: a run of data_prep, or a call
\* of compute_reliability_downtime
InitAggregation == InitPrep \/ InitDowntime

NextAggregation == NextPrep \/ NextDowntime

SpecAggregation == InitAggregation /\ [][NextAggregation]_vars

(***************************************************************************)
(* compute_metrics.py / compute_metrics_refined.py:                        *)
(* compute_peak_periods and compute_capacity_pressure                      *)
(***************************************************************************)
\* Comparison of two ratios <<a, b>> with b > 0
RateLess(x, y) == x[1] * y[2] < y[1] * x[2]
RateEq(x, y) == x[1] * y[2] = y[1] * x[2]

\* The order of sort_values(['station_id', 'occupancy_rate'],
\* ascending=[True, False])
SortsBefore(a, b) ==
  \/ Rank(a.station_id) < Rank(b.station_id)
  \/ a.station_id = b.station_id /\ RateLess(b.occupancy_rate, a.occupancy_rate)

\* Variant: an unstable sort, rows that compare equal come out reversed
RECURSIVE sort_station_rate_unstable(_)
sort_station_rate_unstable(rows) ==
  IF rows = <<>> THEN <<>>
  ELSE LET n == Len(rows)
           init == sort_station_rate_unstable(SubSeq(rows, 1, n - 1))
           pos == Cardinality({ i \in 1..(n - 1) : SortsBefore(init[i], rows[n]) })
       IN SubSeq(init, 1, pos) \o <<rows[n]>> \o SubSeq(init, pos + 1, n - 1)

\* The multi-column sort_values is a stable (lexsort) sort: a row goes after
\* every earlier row that does not sort after it
RECURSIVE sort_station_rate(_)
sort_station_rate(rows) ==
  IF rows = <<>> THEN <<>>
  ELSE LET n == Len(rows)
           init == sort_station_rate(SubSeq(rows, 1, n - 1))
           pos == Cardinality({ i \in 1..(n - 1) : ~SortsBefore(rows[n], init[i]) })
       IN SubSeq(init, 1, pos) \o <<rows[n]>> \o SubSeq(init, pos + 1, n - 1)

\* .groupby('station_id').head(n): the first n rows of every group, in
\* frame order
group_head(rows, n) ==
  LET keep == { i \in 1..Len(rows) :
                  Cardinality({ j \in 1..(i - 1) :
                    rows[j].station_id = rows[i].station_id }) < n }
      RECURSIVE pick(_)
      pick(i) == IF i > Len(rows) THEN <<>>
                 ELSE (IF i \in keep THEN <<rows[i]>> ELSE <<>>) \o pick(i + 1)
  IN pick(1)

compute_peak_periods(frame, n) == group_head(sort_station_rate(frame), n)

\* Variant: only rates above the threshold count
high_pressure_count_strict(rows, thr) ==
  Cardinality({ i \in 1..Len(rows) : RateLess(thr, rows[i].occupancy_rate) })

\* (x >= threshold).sum()
high_pressure_count(rows, thr) ==
  Cardinality({ i \in 1..Len(rows) : ~RateLess(rows[i].occupancy_rate, thr) })

compute_capacity_pressure(frame, thr) ==
  LET ids == group_keys(frame, "station_id")
      row(id) ==
        LET rows == group_rows(frame, "station_id", id)
            high == high_pressure_count(rows, thr)
        IN [station_id |-> id, total_hours |-> Len(rows),
            high_pressure_hours |-> high,
            high_pressure_ratio |-> <<high, Len(rows)>>]
  IN [i \in 1..Len(ids) |-> row(ids[i])]

\* Inputs: station-hourly rows with distinct (station_id, hour) keys and an
\* occupancy_rate charging / total, in one of the row orders above
StationIds == { "S1", "S2" }
StationHours == { 0, 60, 120 }
StationKeys == StationIds \X StationHours
Rates == { <<0, 1>>, <<1, 2>>, <<1, 1>>, <<2, 2>> }
Thresholds == { <<1, 2>>, ThresholdDefault }

StationFrame(keys, rate, order) ==
  LET ks == IF order = "by_hour" THEN SortedHourMajor(keys)
            ELSE IF order = "reversed" THEN Reverse(SortedKeys(keys))
            ELSE SortedKeys(keys)
  IN [i \in 1..Len(ks) |->
        [station_id |-> ks[i][1], hour |-> ks[i][2], occupancy_rate |-> rate[ks[i]]]]

\* The scenario of a station with hourly rates 0.95, 0.92, 0.5, 0.1
ScenarioStation ==
  LET rate == <<<<19, 20>>, <<23, 25>>, <<1, 2>>, <<1, 10>>>>
  IN [i \in 1..Len(rate) |->
        [station_id |-> "S1", hour |-> (i - 1) * MinutesPerHour,
         occupancy_rate |-> rate[i]]]

InitStation ==
  /\ prog = "station_metrics"
  /\ pc = "called"
  /\ \/ \E keys \in SUBSET StationKeys :
          /\ Cardinality(keys) <= MaxStationRows
          /\ \E rate \in [keys -> Rates], order \in RowOrders :
               df_station = StationFrame(keys, rate, order)
     \/ df_station = ScenarioStation
  /\ top_n = TopNDefault /\ threshold = ThresholdDefault
  /\ PrepIdle /\ exit = "running" /\ DowntimeIdle /\ ret = <<>> /\ RefinedIdle

\* compute_peak_periods(df_station, top_n)
PeakPeriods ==
  /\ prog = "station_metrics" /\ pc = "called"
  /\ \E n \in (0..MaxTopN) \cup {TopNDefault} :
       /\ top_n' = n
       /\ ret' = compute_peak_periods(df_station, n)
  /\ pc' = "peak_returned"
  /\ UNCHANGED <<prog, prepVars, written, stdout, exit, downtimeVars,
                 df_station, threshold, refinedVars>>

\* compute_capacity_pressure(df_station, threshold)
CapacityPressure ==
  /\ prog = "station_metrics" /\ pc = "called"
  /\ \E thr \in Thresholds :
       /\ threshold' = thr
       /\ ret' = compute_capacity_pressure(df_station, thr)
  /\ pc' = "pressure_returned"
  /\ UNCHANGED <<prog, prepVars, written, stdout, exit, downtimeVars,
                 df_station, top_n, refinedVars>>

NextStation ==
  \/ PeakPeriods
  \/ CapacityPressure

SpecStation == InitStation /\ [][NextStation]_vars

(***************************************************************************)
(* compute_metrics_refined.py: the remaining views and main                *)
(***************************************************************************)
AddRate(x, y) == <<x[1] * y[2] + y[1] * x[2], x[2] * y[2]>>

RECURSIVE SumRates(_)
SumRates(rs) == IF rs = <<>> THEN <<0, 1>> ELSE AddRate(Head(rs), SumRates(Tail(rs)))

\* ['occupancy_rate'].mean() of a non-empty group
mean_rate(rows) ==
  LET sum == SumRates([i \in 1..Len(rows) |-> rows[i].occupancy_rate])
  IN <<sum[1], sum[2] * Len(rows)>>

\* df['hour'].dt.date and df['hour'].dt.hour
date_of(hour) == hour \div MinutesPerDay
hour_of_day(hour) == (hour % MinutesPerDay) \div MinutesPerHour

RECURSIVE SortedInts(_)
SortedInts(S) ==
  IF S = {} THEN <<>>
  ELSE LET m == CHOOSE x \in S : \A y \in S : x <= y
       IN <<m>> \o SortedInts(S \ {m})

\* groupby(['station_id', 'date'])['occupancy_rate'].mean()
compute_utilization_trends(frame) ==
  LET keys == SortedKeys({ <<r.station_id, date_of(r.hour)>> : r \in Range(frame) })
      member(k) ==
        LET in(r) == r.station_id = k[1] /\ date_of(r.hour) = k[2]
        IN SelectSeq(frame, in)
  IN [i \in 1..Len(keys) |->
        [station_id |-> keys[i][1], date |-> keys[i][2],
         avg_occupancy_rate |-> mean_rate(member(keys[i]))]]

\* groupby('hour_of_day')['occupancy_rate'].mean()
compute_global_peak_by_hour_of_day(frame) ==
  LET keys == SortedInts({ hour_of_day(r.hour) : r \in Range(frame) })
      member(k) ==
        LET in(r) == hour_of_day(r.hour) = k IN SelectSeq(frame, in)
  IN [i \in 1..Len(keys) |->
        [hour_of_day |-> keys[i], avg_occupancy_rate |-> mean_rate(member(keys[i]))]]

\* pd.read_parquet(...).reset_index(): the index levels become columns
reset_index(table, entity) ==
  [i \in 1..Len(table.rows) |->
     LET r == table.rows[i]
     IN IF entity = "station_id"
        THEN [station_id |-> r.entity, hour |-> r.hour, counts |-> r.counts,
              total |-> r.total, charging |-> r.charging,
              occupancy_rate |-> r.occupancy_rate]
        ELSE [evse_id |-> r.entity, hour |-> r.hour, counts |-> r.counts,
              total |-> r.total, charging |-> r.charging,
              occupancy_rate |-> r.occupancy_rate]]

\* lines 141-147 for a frame that has an AVAILABLE column: 0 / 0 is NaN and
\* dropna removes the row; the refined ratio replaces occupancy_rate
refine(rows) ==
  LET denominator(r) == r.charging + r.counts["AVAILABLE"]
      defined(r) == denominator(r) # 0
      kept == SelectSeq(rows, defined)
  IN [i \in 1..Len(kept) |->
        [station_id |-> kept[i].station_id, hour |-> kept[i].hour,
         occupancy_rate |-> <<kept[i].charging, denominator(kept[i])>>]]

\* evse_df[['evse_id', 'hour', 'charging_count']]
with_charging_count(rows) ==
  [i \in 1..Len(rows) |->
     [evse_id |-> rows[i].evse_id, hour |-> rows[i].hour,
      charging_count |-> rows[i].charging]]

\* Inputs: the two tables data_prep writes for a list of cleaned records
CleanStatuses == Statuses \ { "UNKNOWN" }
CleanInstants == { 50, 70 }
CleanRecord(c, st, t) ==
  [station_id |-> c[1], evse_id |-> c[2], status |-> st, timestamp |-> t,
   hour |-> floor_hour(t)]
CleanRecords ==
  { CleanRecord(c, st, t) : c \in Connectors, st \in CleanStatuses, t \in CleanInstants }

\* The scenario: station S1 at 08:00 with CHARGING 3, AVAILABLE 7, and with
\* or without OUTOFORDER 2
ScenarioClean(outoforder) ==
  [i \in 1..(10 + outoforder) |->
     CleanRecord(<<"S1", "E1">>,
       IF i <= 3 THEN "CHARGING" ELSE IF i <= 10 THEN "AVAILABLE" ELSE "OUTOFORDER",
       8 * MinutesPerHour + i)]

TablesOf(recs) ==
  [station |-> hourly_table(recs, "station_id"), evse |-> hourly_table(recs, "evse_id")]

InitRefined ==
  /\ prog = "compute_metrics_refined"
  /\ pc = "load_station"
  /\ \/ \E k \in 0..MaxCleanRecs :
          \E recs \in [1..k -> CleanRecords] : parquet = TablesOf(recs)
     \/ \E outoforder \in { 0, 2 } : parquet = TablesOf(ScenarioClean(outoforder))
  /\ station_df = <<>> /\ station_ref = <<>> /\ evse_df = <<>>
  /\ views = NoViews
  /\ PrepIdle /\ exit = "running" /\ DowntimeIdle /\ StationIdle /\ ret = <<>>

\* lines 136-137
RefLoadStation ==
  /\ prog = "compute_metrics_refined" /\ pc = "load_station"
  /\ station_df' = reset_index(parquet.station, "station_id")
  /\ pc' = "refine"
  /\ UNCHANGED <<prog, prepVars, written, stdout, exit, downtimeVars,
                 stationVars, ret, parquet, station_ref, evse_df, views>>

\* lines 141-147: station_df['AVAILABLE'] raises KeyError when the table has
\* no AVAILABLE column
RefRefine ==
  /\ prog = "compute_metrics_refined" /\ pc = "refine"
  /\ IF "AVAILABLE" \notin parquet.station.columns
     THEN /\ exit' = "KeyError"
          /\ pc' = "halted"
          /\ UNCHANGED station_ref
     ELSE /\ station_ref' = refine(station_df)
          /\ pc' = "load_evse"
          /\ UNCHANGED exit
  /\ UNCHANGED <<prog, prepVars, written, stdout, downtimeVars,
                 stationVars, ret, parquet, station_df, evse_df, views>>

\* lines 150-152
RefLoadEvse ==
  /\ prog = "compute_metrics_refined" /\ pc = "load_evse"
  /\ evse_df' = with_charging_count(reset_index(parquet.evse, "evse_id"))
  /\ pc' = "compute"
  /\ UNCHANGED <<prog, prepVars, written, stdout, exit, downtimeVars,
                 stationVars, ret, parquet, station_df, station_ref, views>>

\* lines 155-159
RefCompute ==
  /\ prog = "compute_metrics_refined" /\ pc = "compute"
  /\ views' =
       [daily_util |-> compute_utilization_trends(station_ref),
        peak_periods |-> compute_peak_periods(station_ref, TopNDefault),
        global_peak |-> compute_global_peak_by_hour_of_day(station_ref),
        capacity_pressure |-> compute_capacity_pressure(station_ref, ThresholdDefault),
        reliability |-> compute_reliability_downtime(evse_df, GapHoursDefault)]
  /\ pc' = "save"
  /\ UNCHANGED <<prog, prepVars, written, stdout, exit, downtimeVars,
                 stationVars, ret, parquet, station_df, station_ref, evse_df>>

\* lines 162-166
RefSave ==
  /\ prog = "compute_metrics_refined" /\ pc = "save"
  /\ written' = written \cup
       { "daily_utilization_trends_refined.csv", "peak_periods_station_refined.csv",
         "global_peak_hour_of_day_refined.csv", "capacity_pressure_station_refined.csv",
         "reliability_evse_downtime_refined.csv" }
  /\ exit' = "ok"
  /\ pc' = "halted"
  /\ UNCHANGED <<prog, avro_files, sample_files, all_recs, df, total,
                 unknown_count, df_clean, agg, agg_evse, stdout,
                 downtimeVars, stationVars, ret, refinedVars>>

NextRefined ==
  \/ RefLoadStation
  \/ RefRefine
  \/ RefLoadEvse
  \/ RefCompute
  \/ RefSave

SpecRefined == InitRefined /\ [][NextRefined]_vars

(***************************************************************************)
(* compute_metrics.py: main                                                *)
(***************************************************************************)
\* The names bound at module level of compute_metrics.py (the def
\* statements at lines 4, 22, 41, 59, 81 and 111)
BaselineDefs ==
  { "compute_utilization_trends", "compute_peak_periods",
    "compute_global_peak_by_hour_of_day", "compute_capacity_pressure_messages",
    "compute_reliability_downtime", "main" }

\* The statements of main after the load, lines 128-139, in program order
BaselineBody ==
  << [label |-> "line128", kind |-> "call", view |-> "daily_util",
      callee |-> "compute_utilization_trends"],
     [label |-> "line129", kind |-> "call", view |-> "peak_periods",
      callee |-> "compute_peak_periods"],
     [label |-> "line130", kind |-> "call", view |-> "global_peak",
      callee |-> "compute_global_peak_by_hour_of_day"],
     [label |-> "line131", kind |-> "call", view |-> "capacity_pressure",
      callee |-> "compute_capacity_pressure"],
     [label |-> "line132", kind |-> "call", view |-> "reliability",
      callee |-> "compute_reliability_downtime"],
     [label |-> "line135", kind |-> "to_csv", view |-> "daily_util",
      callee |-> "daily_utilization_trends.csv"],
     [label |-> "line136", kind |-> "to_csv", view |-> "peak_periods",
      callee |-> "peak_periods_station.csv"],
     [label |-> "line137", kind |-> "to_csv", view |-> "global_peak",
      callee |-> "global_peak_hour_of_day.csv"],
     [label |-> "line138", kind |-> "to_csv", view |-> "capacity_pressure",
      callee |-> "capacity_pressure_station.csv"],
     [label |-> "line139", kind |-> "to_csv", view |-> "reliability",
      callee |-> "reliability_evse_downtime.csv"] >>

BaselineLabels == { BaselineBody[i].label : i \in 1..Len(BaselineBody) }

StatementAt(label) ==
  CHOOSE i \in 1..Len(BaselineBody) : BaselineBody[i].label = label

\* The value a call of the function named callee returns, with the default
\* arguments main leaves in place
call_result(callee, station, evse) ==
  CASE callee = "compute_utilization_trends" -> compute_utilization_trends(station)
    [] callee = "compute_peak_periods" -> compute_peak_periods(station, TopNDefault)
    [] callee = "compute_global_peak_by_hour_of_day" ->
         compute_global_peak_by_hour_of_day(station)
    [] callee = "compute_capacity_pressure_messages" ->
         compute_capacity_pressure(station, ThresholdDefault)
    [] callee = "compute_reliability_downtime" ->
         compute_reliability_downtime(evse, GapHoursDefault)

\* The station frame as the view functions read it
station_columns(rows) ==
  [i \in 1..Len(rows) |->
     [station_id |-> rows[i].station_id, hour |-> rows[i].hour,
      occupancy_rate |-> rows[i].occupancy_rate]]

InitBaseline ==
  /\ prog = "compute_metrics"
  /\ pc = "load"
  /\ \/ \E k \in 1..MaxCleanRecs :
          \E recs \in [1..k -> CleanRecords] : parquet = TablesOf(recs)
     \/ \E outoforder \in { 0, 2 } : parquet = TablesOf(ScenarioClean(outoforder))
  /\ station_df = <<>> /\ station_ref = <<>> /\ evse_df = <<>>
  /\ views = NoViews
  /\ PrepIdle /\ exit = "running" /\ DowntimeIdle /\ StationIdle /\ ret = <<>>

\* lines 113-125
BaseLoad ==
  /\ prog = "compute_metrics" /\ pc = "load"
  /\ station_df' = reset_index(parquet.station, "station_id")
  /\ evse_df' = with_charging_count(reset_index(parquet.evse, "evse_id"))
  /\ pc' = BaselineBody[1].label
  /\ UNCHANGED <<prog, prepVars, written, stdout, exit, downtimeVars,
                 stationVars, ret, parquet, station_ref, views>>

\* lines 128-139, one statement: a call of a name that the module does not
\* bind raises NameError and ends the run
BaseStatement ==
  /\ prog = "compute_metrics" /\ pc \in BaselineLabels
  /\ LET i == StatementAt(pc)
         st == BaselineBody[i]
         next == IF i < Len(BaselineBody) THEN BaselineBody[i + 1].label ELSE "halted"
         done == IF i < Len(BaselineBody) THEN exit ELSE "ok"
     IN IF st.kind = "call"
        THEN IF st.callee \in BaselineDefs
             THEN /\ views' =
                       [v \in DOMAIN views \cup { st.view } |->
                          IF v = st.view
                          THEN call_result(st.callee, station_columns(station_df), evse_df)
                          ELSE views[v]]
                  /\ pc' = next
                  /\ UNCHANGED <<exit, written>>
             ELSE /\ exit' = "NameError"
                  /\ pc' = "halted"
                  /\ UNCHANGED <<views, written>>
        ELSE /\ written' = written \cup { st.callee }
             /\ exit' = done
             /\ pc' = next
             /\ UNCHANGED views
  /\ UNCHANGED <<prog, prepVars, stdout, downtimeVars, stationVars, ret,
                 parquet, station_df, station_ref, evse_df>>

NextBaseline ==
  \/ BaseLoad
  \/ BaseStatement

SpecBaseline == InitBaseline /\ [][NextBaseline]_vars

(***************************************************************************)
(* Properties of data_prep.py (checked under SpecPrep).                    *)
(***************************************************************************)
StationTableWritten == "occupancy_station_hourly.parquet" \in written
EvseTableWritten == "occupancy_evse_hourly.parquet" \in written

\* The records of frame rows that fall in the bucket (id, hour) of a table
\* keyed by the column entity, counted by scanning the frame
InBucket(rows, entity, id, hour) ==
  { i \in 1..Len(rows) : rows[i][entity] = id /\ rows[i].hour = hour }

AccountingHolds(table, entity) ==
  \A i \in 1..Len(table.rows) :
    LET r == table.rows[i]
        bucket == InBucket(df_clean, entity, r.entity, r.hour)
    IN /\ r.total = SumOver(r.counts, table.columns)
       /\ r.total > 0
       /\ 0 <= r.charging /\ r.charging <= r.total
       /\ r.charging =
            Cardinality({ j \in bucket : df_clean[j].status = "CHARGING" })

NoChargingObserved == \A i \in 1..Len(df_clean) : df_clean[i].status # "CHARGING"

\* C4: every row of the station-hourly and connector-hourly tables has
\* total = sum of its status columns, total > 0 and 0 <= charging <= total,
\* charging being the number of CHARGING records of the bucket; with no
\* CHARGING record in the input every row has charging = 0 and the run does
\* not fail.
C4_Accounting ==
  /\ StationTableWritten => AccountingHolds(agg, "station_id")
  /\ EvseTableWritten => AccountingHolds(agg_evse, "evse_id")
  /\ (pc = "halted" /\ df_clean # <<>> /\ NoChargingObserved) =>
       /\ exit = "ok"
       /\ "CHARGING" \notin agg.columns
       /\ \A i \in 1..Len(agg.rows) : agg.rows[i].charging = 0
       /\ \A i \in 1..Len(agg_evse.rows) : agg_evse.rows[i].charging = 0

\* A finished run without any CHARGING record whose station table has a row
\* counting two records, next to a run with a row mixing CHARGING and others
C4_Witness ==
  /\ exit = "ok" /\ NoChargingObserved
  /\ \E i \in 1..Len(agg.rows) : agg.rows[i].total = 2 /\ agg.rows[i].charging = 0
  /\ \E i \in 1..Len(agg_evse.rows) : agg_evse.rows[i].total >= 1

UnknownFiltered == pc \in {"agg_station", "agg_evse", "save_report"} \/ exit = "ok"

NoUnknownIn(table, entity) ==
  /\ "UNKNOWN" \notin table.columns
  /\ \A i \in 1..Len(table.rows) :
       LET r == table.rows[i]
       IN r.total =
            Cardinality({ j \in 1..Len(df) :
              /\ df[j][entity] = r.entity
              /\ df[j].timestamp.min - (df[j].timestamp.min % MinutesPerHour) = r.hour
              /\ df[j].status # "UNKNOWN" })

\* C5: no UNKNOWN record reaches the hourly aggregation, no hourly table has
\* an UNKNOWN column or counts an UNKNOWN record in total, and the reported
\* total is the number of cleaned records plus the reported UNKNOWN count.
C5_UnknownExcluded ==
  UnknownFiltered =>
    /\ \A i \in 1..Len(df_clean) : df_clean[i].status # "UNKNOWN"
    /\ StationTableWritten => NoUnknownIn(agg, "station_id")
    /\ EvseTableWritten => NoUnknownIn(agg_evse, "evse_id")
    /\ total = Len(df_clean) + unknown_count
    /\ unknown_count = Len(df) - Len(df_clean)
    /\ total = Len(df)

\* A finished run that removed an UNKNOWN record and kept another record
C5_Witness ==
  /\ exit = "ok" /\ unknown_count >= 1 /\ Len(df_clean) >= 1
  /\ "unknown_analysis.txt" \in written

\* has(id, h): a qualifying record of id lies in the hour that starts at h
OneRowPerPair(table, entity) ==
  LET keys == { <<table.rows[i].entity, table.rows[i].hour>> : i \in 1..Len(table.rows) }
      has(id, h) ==
        \E j \in 1..Len(df) :
          /\ df[j].status # "UNKNOWN" /\ df[j][entity] = id
          /\ h % MinutesPerHour = 0
          /\ h <= df[j].timestamp.min /\ df[j].timestamp.min < h + MinutesPerHour
  IN /\ Cardinality(keys) = Len(table.rows)
     /\ \A k \in keys : has(k[1], k[2])
     /\ \A j \in 1..Len(df) :
          \A n \in 0..(df[j].timestamp.min \div MinutesPerHour) :
            has(df[j][entity], n * MinutesPerHour) =>
              <<df[j][entity], n * MinutesPerHour>> \in keys

\* C6: each hourly table has exactly one row per (entity, hour) pair that has
\* a non-UNKNOWN canonical record in that hour, and no other row.
C6_OneRowPerBucket ==
  /\ StationTableWritten => OneRowPerPair(agg, "station_id")
  /\ EvseTableWritten => OneRowPerPair(agg_evse, "evse_id")

\* Two connectors reporting in different hours: each gets a row for its own
\* hour only, and the other hour is not filled in
C6_Witness ==
  /\ exit = "ok"
  /\ Len(agg_evse.rows) = 2
  /\ agg_evse.rows[1].entity # agg_evse.rows[2].entity
  /\ agg_evse.rows[1].hour # agg_evse.rows[2].hour
  /\ Len(agg.rows) = 2

\* The records that survive normalisation, straight from the input
CanonicalOf(files) ==
  dropna_timestamp(parse_timestamps(dropna_fields(parse_avro_file(Concat(files)))))

\* C10: a run left with zero qualifying records reports it and halts without
\* writing an hourly table, instead of dying of an unhandled error.
C10_EmptyInputReported ==
  (pc = "halted" /\ CanonicalOf(avro_files) = <<>>) =>
     /\ exit = "exit1"
     /\ ~StationTableWritten /\ ~EvseTableWritten

(***************************************************************************)
(* Properties of compute_reliability_downtime (checked under SpecDowntime). *)
(***************************************************************************)
ConnectorsIn(frame) == { r.evse_id : r \in Range(frame) }
HoursOf(frame, c) == { r.hour : r \in { x \in Range(frame) : x.evse_id = c } }
ChargeAt(frame, c, h) ==
  (CHOOSE r \in Range(frame) : r.evse_id = c /\ r.hour = h).charging_count

\* <<a, b>> is a maximal idle run of connector c: every row from hour a to
\* hour b is idle, and the rows next to it on either side, if any, are not
MaximalIdleRuns(frame, c) ==
  LET H == HoursOf(frame, c)
      idle(h) == ChargeAt(frame, c, h) = 0
      before(a) == { h \in H : h < a }
      after(b) == { h \in H : h > b }
      prev(a) == CHOOSE h \in before(a) : \A g \in before(a) : g <= h
      next(b) == CHOOSE h \in after(b) : \A g \in after(b) : h <= g
  IN { run \in H \X H :
         /\ run[1] <= run[2]
         /\ \A h \in H : (run[1] <= h /\ h <= run[2]) => idle(h)
         /\ before(run[1]) # {} => ~idle(prev(run[1]))
         /\ after(run[2]) # {} => ~idle(next(run[2])) }

RunLength(frame, c, run) ==
  Cardinality({ h \in HoursOf(frame, c) : run[1] <= h /\ h <= run[2] })

LongIdleRuns(frame, c, gap) ==
  { run \in MaximalIdleRuns(frame, c) : RunLength(frame, c, run) >= gap }

RECURSIVE SumLengths(_, _, _)
SumLengths(frame, c, S) ==
  IF S = {} THEN 0
  ELSE LET run == CHOOSE x \in S : TRUE
       IN RunLength(frame, c, run) + SumLengths(frame, c, S \ {run})

\* C1: the detector returns exactly one record per connector that has a row;
\* its num_downtime_events is the number of maximal runs of idle rows (in
\* hour order) of length >= gap_hours and its total_downtime_hours the sum of
\* their lengths.  The 26-hour scenario gives 0/0 for gap 24 and 1/21 for
\* gap 20.
C1_DowntimeRecords ==
  pc = "returned" =>
    /\ Len(ret) = Cardinality(ConnectorsIn(df_evse))
    /\ \A c \in ConnectorsIn(df_evse) :
         \E i \in 1..Len(ret) :
           /\ ret[i].evse_id = c
           /\ ret[i].num_downtime_events =
                Cardinality(LongIdleRuns(df_evse, c, gap_hours))
           /\ ret[i].total_downtime_hours =
                SumLengths(df_evse, c, LongIdleRuns(df_evse, c, gap_hours))
    /\ (df_evse = ScenarioEvse /\ gap_hours = GapHoursDefault) =>
         ret = <<[evse_id |-> "E1", num_downtime_events |-> 0,
                  total_downtime_hours |-> 0]>>
    /\ (df_evse = ScenarioEvse /\ gap_hours = 20) =>
         ret = <<[evse_id |-> "E1", num_downtime_events |-> 1,
                  total_downtime_hours |-> 21]>>

\* A connector with three idle rows of which one run of two qualifies and
\* the third row does not
C1_Witness ==
  /\ pc = "returned" /\ gap_hours = 2
  /\ \E i \in 1..Len(ret) :
       /\ ret[i].num_downtime_events = 1 /\ ret[i].total_downtime_hours = 2
       /\ Cardinality({ h \in HoursOf(df_evse, ret[i].evse_id) :
                          ChargeAt(df_evse, ret[i].evse_id, h) = 0 }) = 3

\* C2: runs follow row adjacency in the hour-sorted group, not the calendar:
\* two idle rows of a connector with no busy row between them in hour order
\* are in the same run, whatever the distance between their hours.
C2_RowAdjacency ==
  /\ \A i, j \in 1..Len(grp) : i < j => grp[i].hour < grp[j].hour
  /\ \A i, j \in 1..Len(grp) :
       ( /\ i < j
         /\ \A k \in i..j : grp[k].charging_count = 0 ) =>
           /\ grp[i].run = grp[j].run
           /\ runs[grp[i].run].is_zero
           /\ runs[grp[i].run].count_hours >= j - i + 1

\* Two idle rows a missing calendar hour apart that sit in one run, which is
\* long enough to be reported
C2_Witness ==
  \E i \in 1..(Len(grp) - 1) :
    /\ grp[i].is_zero /\ grp[i + 1].is_zero
    /\ grp[i + 1].hour - grp[i].hour > MinutesPerHour
    /\ grp[i].run = grp[i + 1].run
    /\ runs[grp[i].run].count_hours >= gap_hours
    /\ pc = "returned"
    /\ ret[Len(ret)].num_downtime_events = 1

IdleRows(frame, c) ==
  LET idle(r) == r.evse_id = c /\ r.charging_count = 0 IN SelectSeq(frame, idle)

\* The rows of the connector's reported runs: the detector's own filtered
\* output, row by row
ReportedRows(frame, c, gap) ==
  LET g == annotate(group_rows(frame, "evse_id", c))
      ids == { r.run : r \in Range(downtime_runs(run_table(g), gap)) }
      reported(r) == r.run \in ids
  IN SelectSeq(g, reported)

\* C3 as stated: the detector re-run on a connector's idle rows finds exactly
\* one run, as long as the total_downtime_hours first reported.
C3_IdleRowsRerun ==
  pc = "returned" =>
    \A i \in 1..Len(ret) :
      LET z == IdleRows(df_evse, ret[i].evse_id)
          rs == run_table(annotate(z))
      IN z # <<>> =>
           /\ Len(rs) = 1
           /\ rs[1].count_hours = ret[i].total_downtime_hours

\* C3 amended: the detector re-run on the rows of a connector's reported runs
\* finds, for a connector with a reported run, exactly one run, idle, as long
\* as the total_downtime_hours first reported, and reports it as one event;
\* re-run on all idle rows it finds one run as long as the number of idle
\* rows, which is the reported total only when every idle run was reported.
C3_ReportedRowsRerun ==
  pc = "returned" =>
    \A i \in 1..Len(ret) :
      LET c == ret[i].evse_id
          q == ReportedRows(df_evse, c, gap_hours)
          rs == run_table(annotate(q))
          z == IdleRows(df_evse, c)
          zs == run_table(annotate(z))
          all == run_table(annotate(group_rows(df_evse, "evse_id", c)))
      IN /\ ret[i].num_downtime_events >= 1 =>
              /\ Len(rs) = 1
              /\ rs[1].is_zero
              /\ rs[1].count_hours = ret[i].total_downtime_hours
              /\ downtime_of_group(q, c, gap_hours) =
                   [evse_id |-> c, num_downtime_events |-> 1,
                    total_downtime_hours |-> ret[i].total_downtime_hours]
         /\ ret[i].num_downtime_events = 0 => q = <<>>
         /\ z # <<>> =>
              /\ Len(zs) = 1
              /\ zs[1].count_hours = Len(z)
              /\ zs[1].count_hours >= ret[i].total_downtime_hours
              /\ (zs[1].count_hours = ret[i].total_downtime_hours) <=>
                   (\A k \in 1..Len(all) :
                      all[k].is_zero => all[k].count_hours >= gap_hours)

\* A connector with two reported runs, which the re-run merges into one
C3_Witness ==
  /\ pc = "returned"
  /\ \E i \in 1..Len(ret) :
       /\ ret[i].num_downtime_events = 2
       /\ Len(run_table(annotate(ReportedRows(df_evse, ret[i].evse_id, gap_hours)))) = 1

(***************************************************************************)
(* Properties of compute_peak_periods and compute_capacity_pressure        *)
(* (checked under SpecStation).                                            *)
(***************************************************************************)
RowsOf(frame, e) == { i \in 1..Len(frame) : frame[i].station_id = e }
StationsIn(frame) == { r.station_id : r \in Range(frame) }
Min(a, b) == IF a < b THEN a ELSE b
IndexIn(frame, r) == CHOOSE i \in 1..Len(frame) : frame[i] = r

\* C8: for every entity with k hourly rows the peak periods hold exactly
\* min(N, k) of its rows, in non-increasing occupancy_rate order; no omitted
\* row has a higher rate than a returned one, and among rows of equal rate
\* the earlier input rows are the ones kept, in input order.
C8_PeakPeriods ==
  pc = "peak_returned" =>
    /\ \A i, j \in 1..Len(ret) : ret[i] = ret[j] => i = j
    /\ \A i \in 1..Len(ret) : ret[i] \in Range(df_station)
    /\ \A e \in StationsIn(df_station) :
         LET out == RowsOf(ret, e)
             omitted == { r \in Range(df_station) :
                            r.station_id = e /\ r \notin Range(ret) }
         IN /\ Cardinality(out) = Min(top_n, Cardinality(RowsOf(df_station, e)))
            /\ \A i, j \in out :
                 i < j =>
                   /\ ~RateLess(ret[i].occupancy_rate, ret[j].occupancy_rate)
                   /\ RateEq(ret[i].occupancy_rate, ret[j].occupancy_rate) =>
                        IndexIn(df_station, ret[i]) < IndexIn(df_station, ret[j])
            /\ \A i \in out : \A o \in omitted :
                 /\ ~RateLess(ret[i].occupancy_rate, o.occupancy_rate)
                 /\ RateEq(ret[i].occupancy_rate, o.occupancy_rate) =>
                      IndexIn(df_station, ret[i]) < IndexIn(df_station, o)

\* Top 2 of a station with three rows where the row left out ties with a row
\* kept, and the rows kept are not in hour order
C8_Witness ==
  /\ pc = "peak_returned" /\ top_n = 2
  /\ \E e \in StationsIn(df_station) :
       /\ Cardinality(RowsOf(df_station, e)) = 3
       /\ \E i \in RowsOf(ret, e) : \E o \in Range(df_station) :
            /\ o.station_id = e /\ o \notin Range(ret)
            /\ RateEq(ret[i].occupancy_rate, o.occupancy_rate)
            /\ ret[i].occupancy_rate # o.occupancy_rate
            /\ ret[i].hour > o.hour

\* C9: the capacity-pressure view has one row per entity with an hourly row,
\* total_hours its number of rows (> 0), high_pressure_hours the number of
\* them with occupancy_rate >= threshold, and high_pressure_ratio their
\* quotient.  Rates 0.95, 0.92, 0.5, 0.1 with threshold 0.9 give 4, 2, 0.5.
C9_CapacityPressure ==
  pc = "pressure_returned" =>
    /\ Len(ret) = Cardinality(StationsIn(df_station))
    /\ \A e \in StationsIn(df_station) :
         \E i \in 1..Len(ret) :
           /\ ret[i].station_id = e
           /\ ret[i].total_hours = Cardinality(RowsOf(df_station, e))
           /\ ret[i].total_hours > 0
           /\ ret[i].high_pressure_hours =
                Cardinality({ j \in RowsOf(df_station, e) :
                  df_station[j].occupancy_rate[1] * threshold[2] >=
                    threshold[1] * df_station[j].occupancy_rate[2] })
           /\ 0 <= ret[i].high_pressure_hours
           /\ ret[i].high_pressure_hours <= ret[i].total_hours
           /\ ret[i].high_pressure_ratio =
                <<ret[i].high_pressure_hours, ret[i].total_hours>>
    /\ (df_station = ScenarioStation /\ threshold = ThresholdDefault) =>
         /\ Len(ret) = 1
         /\ ret[1].total_hours = 4 /\ ret[1].high_pressure_hours = 2
         /\ RateEq(ret[1].high_pressure_ratio, <<1, 2>>)

\* A station with a rate equal to the threshold, counted, next to a lower one
C9_Witness ==
  /\ pc = "pressure_returned"
  /\ \E i \in 1..Len(ret) :
       /\ ret[i].high_pressure_hours = 1 /\ ret[i].total_hours = 2
       /\ \E j \in RowsOf(df_station, ret[i].station_id) :
            /\ RateEq(df_station[j].occupancy_rate, threshold)
       /\ \A j \in RowsOf(df_station, ret[i].station_id) :
            ~RateLess(threshold, df_station[j].occupancy_rate)

(***************************************************************************)
(* Properties of compute_metrics_refined.main (checked under SpecRefined).  *)
(***************************************************************************)
\* The AVAILABLE count of a station row, an absent column counting as zero
AvailableOf(r) == IF "AVAILABLE" \in DOMAIN r.counts THEN r.counts["AVAILABLE"] ELSE 0

Refined == pc \in {"load_evse", "compute", "save"} \/ (pc = "halted" /\ station_df # <<>>)

\* C7: in the refined variant every retained station-hour row has the ratio
\* charging / (charging + available); a row is left out exactly when
\* charging + available = 0, also when no AVAILABLE status was observed at
\* all (then available counts as zero and nothing fails); {CHARGING 3,
\* AVAILABLE 7, OUTOFORDER 2} has baseline 3/12 and refined 3/10.
C7_RefinedRatio ==
  Refined =>
    /\ exit # "KeyError"
    /\ \A i \in 1..Len(station_df) :
         LET r == station_df[i]
             kept == { j \in 1..Len(station_ref) :
                         /\ station_ref[j].station_id = r.station_id
                         /\ station_ref[j].hour = r.hour }
         IN IF r.charging + AvailableOf(r) = 0
            THEN kept = {}
            ELSE /\ Cardinality(kept) = 1
                 /\ \A j \in kept :
                      station_ref[j].occupancy_rate =
                        <<r.charging, r.charging + AvailableOf(r)>>
    /\ Len(station_ref) <= Len(station_df)
    /\ parquet = TablesOf(ScenarioClean(2)) =>
         /\ station_df[1].occupancy_rate = <<3, 12>>
         /\ station_ref[1].occupancy_rate = <<3, 10>>

(***************************************************************************)
(* Per-record defects in data_prep (checked under SpecPrep).                *)
(***************************************************************************)
\* A raw event that decodes, carries the four fields and a parseable timestamp
WellFormed(rec) ==
  /\ rec.Body = "json"
  /\ rec.payload.nobilId # None /\ rec.payload.evseUId # None
  /\ rec.payload.status # None
  /\ rec.payload.timestamp.kind = "iso"

\* The canonical record a well-formed raw event stands for
CanonicalRecord(rec) ==
  [station_id |-> rec.payload.nobilId, evse_id |-> rec.payload.evseUId,
   status |-> rec.payload.status,
   timestamp |-> [nat |-> FALSE,
                  min |-> rec.payload.timestamp.local - rec.payload.timestamp.off]]

Batch == Concat(avro_files)

WellFormedOf(events) ==
  LET good == SelectSeq(events, WellFormed)
  IN [i \in 1..Len(good) |-> CanonicalRecord(good[i])]

NormalizerDone ==
  \/ pc \in {"unknown_analysis", "exclude_unknown", "agg_station", "agg_evse",
             "save_report"}
  \/ pc = "halted" /\ exit \in {"ok", "ZeroDivisionError"}

\* C11: the canonical record set is exactly the well-formed events of the
\* batch, each once and in stream order, whatever defective events (no Body,
\* undecodable Body, a missing field, a missing or unparseable timestamp)
\* stand before or after them; a run ends in an error only when the batch
\* holds no well-formed event at all, and a batch with a well-formed event
\* runs to completion.
C11_SkipAndContinue ==
  /\ NormalizerDone => df = WellFormedOf(Batch)
  /\ exit \in {"KeyError", "ZeroDivisionError"} => WellFormedOf(Batch) = <<>>
  /\ (pc = "halted" /\ WellFormedOf(Batch) # <<>>) => exit = "ok"

\* A finished run whose batch had an undecodable event ahead of a well-formed
\* one in the same file: the later event is the whole canonical set
C11_Witness ==
  /\ exit = "ok" /\ Len(avro_files) = 1 /\ Len(Batch) = 2
  /\ Batch[1].Body # "json" /\ WellFormed(Batch[2])
  /\ df = <<CanonicalRecord(Batch[2])>>

(***************************************************************************)
(* Row order (checked under SpecAggregation).                               *)
(***************************************************************************)
\* The frame rows in the order given by the permutation p of its positions
Permuted(rows, p) == [i \in 1..Len(rows) |-> rows[p[i]]]

Reorderings(rows) == { Permuted(rows, p) : p \in Permutations(1..Len(rows)) }

\* C12: the station-hourly and connector-hourly tables of a finished data_prep
\* run are the tables of every reordering of the canonical records, and what
\* compute_reliability_downtime returns for a connector-hourly frame (one row
\* per connector and hour) is what it returns for every reordering of the
\* frame's rows: the same connectors, each with the same num_downtime_events
\* and total_downtime_hours.
C12_OrderIndependence ==
  /\ (prog = "data_prep" /\ exit = "ok") =>
       \A d \in Reorderings(df) :
         LET clean == add_hour(exclude_unknown(d))
         IN /\ hourly_table(clean, "station_id") = agg
            /\ hourly_table(clean, "evse_id") = agg_evse
  /\ (prog = "compute_reliability_downtime" /\ pc = "returned"
        /\ Len(df_evse) <= MaxPermRows) =>
       \A f \in Reorderings(df_evse) :
         compute_reliability_downtime(f, gap_hours) = ret

\* A call that returned a downtime event for a connector whose rows came
\* latest hour first, with a busy hour between two idle ones
C12_Witness ==
  /\ prog = "compute_reliability_downtime" /\ pc = "returned"
  /\ Len(df_evse) = 3
  /\ \A i \in 1..3 : df_evse[i].evse_id = "E1"
  /\ df_evse[1].hour > df_evse[2].hour /\ df_evse[2].hour > df_evse[3].hour
  /\ df_evse[1].charging_count = 0 /\ df_evse[2].charging_count > 0
  /\ df_evse[3].charging_count = 0
  /\ gap_hours = 1
  /\ ret = <<[evse_id |-> "E1", num_downtime_events |-> 2, total_downtime_hours |-> 2]>>

(***************************************************************************)
(* The baseline main of compute_metrics.py (checked under SpecBaseline).    *)
(***************************************************************************)
BaselineViews ==
  { "daily_util", "peak_periods", "global_peak", "capacity_pressure", "reliability" }

BaselineOutputs ==
  { "daily_utilization_trends.csv", "peak_periods_station.csv",
    "global_peak_hour_of_day.csv", "capacity_pressure_station.csv",
    "reliability_evse_downtime.csv" }

\* C13: a run of the baseline main on non-empty station-hourly and
\* connector-hourly tables never ends in an error, and when it has ended the
\* five views are computed and the five output tables are written.
C13_BaselineWritesAll ==
  (prog = "compute_metrics" /\ parquet.station.rows # <<>>
     /\ parquet.evse.rows # <<>>) =>
    /\ exit \in {"running", "ok"}
    /\ pc = "halted" =>
         /\ DOMAIN views = BaselineViews
         /\ BaselineOutputs \subseteq written

====
